---- MODULE Spec2Model ----
(***************************************************************************)
(* Model of the two catalog generators of exel-DSA:                        *)
(*   generate_cpp_functions_catalog.py   (write, reload, format, save)     *)
(*   generate_datastructures_catalog.py  (write and size columns, save)    *)
(* A run turns lists of records into DataFrames, writes one sheet per      *)
(* DataFrame through pandas.ExcelWriter (openpyxl engine) and styles the   *)
(* sheets with openpyxl.                                                   *)
(***************************************************************************)
EXTENDS Integers, Sequences, FiniteSets, TLC

VARIABLES
    script,   \* "cpp" or "ds": which of the two scripts runs
    tables,   \* the literal tables: a sequence of [name, records]
    pc,       \* position of the run in the script
    idx,      \* next table to write / next sheet to format
    book,     \* the openpyxl workbook in memory (writer.book, later wb)
    disk,     \* what the output path holds
    handle,   \* the handle on the output file: "none", "open" or "closed"
    stage,    \* the stage in which the run failed, "none" while it has not
    printed,  \* the success summary has been printed
    output,   \* the lines the run has put on the terminal, in order
    caught,   \* failures raised in the run and caught by an except clause
    rendered  \* the files that earlier runs on the same tables have left

vars == <<script, tables, pc, idx, book, disk, handle, stage, printed,
          output, caught, rendered>>

\* ------------------------------------------------------------------------
\* Bounds of the model
\* ------------------------------------------------------------------------
MaxTables == 2      \* tables in a workbook
MaxRecords == 3     \* records in a workbook, over all its tables
MaxLiveRecords == 2 \* records in a workbook of a run whose end is checked
MaxCols == 2        \* columns of a worksheet handed to format_worksheet alone
MaxRows == 3        \* data rows of a worksheet handed to format_worksheet alone

Max(a, b) == IF a >= b THEN a ELSE b
Min(a, b) == IF a <= b THEN a ELSE b

\* ------------------------------------------------------------------------
\* Cell values: Python str, int, float('nan') and None
\* ------------------------------------------------------------------------
S(x) == [t |-> "s", s |-> x, n |-> 0]
N(k) == [t |-> "n", s |-> "", n |-> k]
NaN == [t |-> "nan", s |-> "", n |-> 0]
None == [t |-> "none", s |-> "", n |-> 0]

\* Variant: a cell without value yields the empty text.
strNoneEmpty(v) ==
    CASE v.t = "s" -> v.s
      [] v.t = "n" -> ToString(v.n)
      [] v.t = "nan" -> "nan"
      [] OTHER -> ""

\* str(cell.value)
str(v) ==
    CASE v.t = "s" -> v.s
      [] v.t = "n" -> ToString(v.n)
      [] v.t = "nan" -> "nan"
      [] OTHER -> "None"

\* ------------------------------------------------------------------------
\* The literal tables
\* ------------------------------------------------------------------------
\* A text longer than both width caps (61 characters).
LongText == "Adapter over deque by default; no iterators; LIFO access only"

\* A record is a Python dict: a sequence of <<key, value>> in insertion order.
\* As in the scripts' literals, an int field is present in every record, and
\* records may differ in their other keys (other_containers).
RecordA == << <<"Name", S("a")>>, <<"Value", N(1)>> >>
RecordB == << <<"Name", S("b")>>, <<"Value", N(2)>> >>
RecordC == << <<"Notes", S(LongText)>>, <<"Value", N(3)>> >>

RecordPool == {RecordA, RecordB, RecordC}

SheetNames == {"Demo", "Set Methods", "Other Containers"}

Keys(rec) == [k \in 1..Len(rec) |-> rec[k][1]]

Has(seq, x) == \E k \in 1..Len(seq) : seq[k] = x

\* ------------------------------------------------------------------------
\* pd.DataFrame(list_of_dicts)
\* ------------------------------------------------------------------------
RECURSIVE AddKeys(_, _)
AddKeys(cols, keys) ==
    IF keys = <<>> THEN cols
    ELSE AddKeys(IF Has(cols, Head(keys)) THEN cols ELSE Append(cols, Head(keys)),
                 Tail(keys))

\* Variant: the columns are the keys of the first record alone.
UnionColumnsFirstOnly(cols, records) ==
    IF records = <<>> THEN cols ELSE AddKeys(cols, Keys(Head(records)))

\* The columns: every key, in order of first appearance over the records.
RECURSIVE UnionColumns(_, _)
UnionColumns(cols, records) ==
    IF records = <<>> THEN cols
    ELSE UnionColumns(AddKeys(cols, Keys(Head(records))), Tail(records))

\* The value of a record under a column; NaN when the record lacks the key.
Lookup(rec, key) ==
    IF Has(Keys(rec), key)
    THEN rec[CHOOSE k \in 1..Len(rec) : rec[k][1] = key][2]
    ELSE NaN

\* Variant: a record's values are taken by position, not by key.
DataFramePositional(records) ==
    LET cols == UnionColumns(<<>>, records)
    IN  [columns |-> cols,
         rows |-> [r \in 1..Len(records) |->
                     [c \in 1..Len(cols) |->
                        IF c <= Len(records[r]) THEN records[r][c][2] ELSE NaN]]]

DataFrame(records) ==
    LET cols == UnionColumns(<<>>, records)
    IN  [columns |-> cols,
         rows |-> [r \in 1..Len(records) |->
                     [c \in 1..Len(cols) |-> Lookup(records[r], cols[c])]]]

\* ------------------------------------------------------------------------
\* openpyxl cells and worksheets
\* ------------------------------------------------------------------------
UNFILLED_COLOR == "00000000"

\* openpyxl Color(rgb): a six-digit rgb is stored as aRGB with alpha 00.
Color(rgb) == IF Len(rgb) = 6 THEN "00" \o rgb ELSE rgb

\* A cell as to_excel writes it, with no fill. (The font, border and alignment
\* pandas gives its header cells are replaced by format_worksheet and are
\* left out.)
Cell(v) ==
    [value |-> v, fill |-> UNFILLED_COLOR, font |-> "default",
     alignment |-> "default", border |-> "none"]

EmptyCell == Cell(None)

NCols(cells) == IF Len(cells) = 0 THEN 0 ELSE Len(cells[1])

Worksheet(title, cells) ==
    [title |-> title, cells |-> cells, auto_filter |-> "", freeze_panes |-> "",
     widths |-> [c \in 1..NCols(cells) |-> 0]]

\* ws.max_row and ws.max_column: 1 for a sheet without cells.
max_row(ws) == Max(1, Len(ws.cells))
max_column(ws) == Max(1, NCols(ws.cells))

Letters ==
    <<"A", "B", "C", "D", "E", "F", "G", "H", "I", "J", "K", "L", "M",
      "N", "O", "P", "Q", "R", "S", "T", "U", "V", "W", "X", "Y", "Z">>

get_column_letter(c) == Letters[c]

\* Variant: the range stops at the first column.
dimensionsFirstColumn(ws) == "A1:A" \o ToString(max_row(ws))

\* ws.dimensions: the populated rectangle, "A1:A1" for a sheet without cells.
dimensions(ws) ==
    "A1:" \o get_column_letter(max_column(ws)) \o ToString(max_row(ws))

\* ------------------------------------------------------------------------
\* DataFrame.to_excel(writer, sheet_name=..., index=False)
\* ------------------------------------------------------------------------
\* Variant: a missing value is written as the text "nan".
ExcelValueNanText(v) == IF v.t = "nan" THEN S("nan") ELSE v

\* A missing value is written as the empty string (na_rep).
ExcelValue(v) == IF v.t = "nan" THEN S("") ELSE v

\* Variant: the last record is not written.
FrameCellsDropLast(df) ==
    IF Len(df.columns) = 0 THEN <<>>
    ELSE << [c \in 1..Len(df.columns) |-> Cell(S(df.columns[c]))] >>
         \o [r \in 1..(Len(df.rows) - 1) |->
               [c \in 1..Len(df.columns) |-> Cell(ExcelValue(df.rows[r][c]))]]

\* Variant: the records are written last to first.
FrameCellsReversed(df) ==
    IF Len(df.columns) = 0 THEN <<>>
    ELSE << [c \in 1..Len(df.columns) |-> Cell(S(df.columns[c]))] >>
         \o [r \in 1..Len(df.rows) |->
               [c \in 1..Len(df.columns) |->
                  Cell(ExcelValue(df.rows[Len(df.rows) + 1 - r][c]))]]

\* The cells of a frame: the header row, then one row per record. A frame
\* without columns has no cells.
FrameCells(df) ==
    IF Len(df.columns) = 0 THEN <<>>
    ELSE << [c \in 1..Len(df.columns) |-> Cell(S(df.columns[c]))] >>
         \o [r \in 1..Len(df.rows) |->
               [c \in 1..Len(df.columns) |-> Cell(ExcelValue(df.rows[r][c]))]]

\* Writing cells into a sheet that already has cells: the written rectangle
\* replaces what was there, the rest of the old cells stays.
Overlay(old, new) ==
    [r \in 1..Max(Len(old), Len(new)) |->
       [c \in 1..Max(NCols(old), NCols(new)) |->
          IF r <= Len(new) /\ c <= NCols(new) THEN new[r][c]
          ELSE IF r <= Len(old) /\ c <= NCols(old) THEN old[r][c]
          ELSE EmptyCell]]

SheetIndex(wb, title) == CHOOSE k \in 1..Len(wb) : wb[k].title = title

HasSheet(wb, title) == \E k \in 1..Len(wb) : wb[k].title = title

\* Variant: the columns of a sheet are sized as soon as the sheet is written.
to_excel_sized(wb, df, sheet_name) ==
    IF HasSheet(wb, sheet_name)
    THEN [wb EXCEPT ![SheetIndex(wb, sheet_name)] =
             [@ EXCEPT !.cells = Overlay(@.cells, FrameCells(df)),
                       !.widths = [c \in 1..NCols(Overlay(@.cells, FrameCells(df))) |-> 10]]]
    ELSE Append(wb, [Worksheet(sheet_name, FrameCells(df)) EXCEPT
                        !.widths = [c \in 1..NCols(FrameCells(df)) |-> 10]])

\* Variant: a new sheet is put before the sheets written so far.
to_excel_front(wb, df, sheet_name) ==
    IF HasSheet(wb, sheet_name)
    THEN LET k == SheetIndex(wb, sheet_name)
         IN  [wb EXCEPT ![k] =
                Worksheet(sheet_name, Overlay(wb[k].cells, FrameCells(df)))]
    ELSE << Worksheet(sheet_name, FrameCells(df)) >> \o wb

\* In write mode the writer reuses a sheet of the same name (writer.sheets)
\* and creates one otherwise.
to_excel(wb, df, sheet_name) ==
    IF HasSheet(wb, sheet_name)
    THEN LET k == SheetIndex(wb, sheet_name)
         IN  [wb EXCEPT ![k] =
                Worksheet(sheet_name, Overlay(wb[k].cells, FrameCells(df)))]
    ELSE Append(wb, Worksheet(sheet_name, FrameCells(df)))

\* ------------------------------------------------------------------------
\* The file at the output path
\* ------------------------------------------------------------------------
\* In the file an empty string is an empty cell: it is read back as None.
XlsxValue(v) == IF v = S("") THEN None ELSE v

XlsxSheet(ws) ==
    [ws EXCEPT !.cells =
        [r \in 1..Len(ws.cells) |->
           [c \in 1..NCols(ws.cells) |->
              [ws.cells[r][c] EXCEPT !.value = XlsxValue(@)]]]]

Absent == [kind |-> "absent", book |-> <<>>]
Previous == [kind |-> "previous", book |-> <<>>]    \* a file of an earlier run
Truncated == [kind |-> "truncated", book |-> <<>>]  \* opened for writing, no workbook in it
Partial == [kind |-> "partial", book |-> <<>>]      \* a write that broke off
Xlsx(wb) == [kind |-> "xlsx", book |-> [k \in 1..Len(wb) |-> XlsxSheet(wb[k])]]

\* load_workbook(output_file)
load_workbook(file) == file.book

\* ------------------------------------------------------------------------
\* format_worksheet(ws, header_color, freeze_panes=True)
\* ------------------------------------------------------------------------
HEADER_FONT == "bold_white_11"
HEADER_ALIGNMENT == "center_center_wrap"
THIN_BORDER == "thin_000000"
LIGHT_FILL == Color("F2F2F2")
DEFAULT_HEADER_COLOR == "4472C4"
WidthMargin == 3
WidthCap == 60
DsWidthMargin == 2
DsWidthCap == 50

\* "for cell in ws[1]": the cells of row 1 up to max_column; a sheet without
\* cells gets the cell A1 by the access.
HeaderStyle(ws, header_color) ==
    LET cells == IF Len(ws.cells) = 0 THEN << <<EmptyCell>> >> ELSE ws.cells
    IN  [ws EXCEPT
           !.cells = [cells EXCEPT ![1] =
                        [c \in 1..Len(cells[1]) |->
                           [cells[1][c] EXCEPT !.fill = Color(header_color),
                                               !.font = HEADER_FONT,
                                               !.alignment = HEADER_ALIGNMENT,
                                               !.border = THIN_BORDER]]],
           !.widths = [c \in 1..Len(cells[1]) |->
                         IF c <= Len(ws.widths) THEN ws.widths[c] ELSE 0]]

\* Variant: the filter range leaves out the header row.
AutoFilterDataOnly(ws) ==
    [ws EXCEPT !.auto_filter =
        "A2:" \o get_column_letter(max_column(ws)) \o ToString(max_row(ws))]

\* ws.auto_filter.ref = ws.dimensions
AutoFilter(ws) == [ws EXCEPT !.auto_filter = dimensions(ws)]

\* Variant: the panes are frozen in the first run on the tables only.
FreezePanesFirstRun(ws, freeze_panes) ==
    IF freeze_panes /\ rendered = <<>> THEN [ws EXCEPT !.freeze_panes = "B2"] ELSE ws

\* Variant: only the header row is frozen.
FreezePanesRowOnly(ws, freeze_panes) ==
    IF freeze_panes THEN [ws EXCEPT !.freeze_panes = "A2"] ELSE ws

\* if freeze_panes: ws.freeze_panes = 'B2'
FreezePanes(ws, freeze_panes) ==
    IF freeze_panes THEN [ws EXCEPT !.freeze_panes = "B2"] ELSE ws

\* max(len(str(cell.value)) for cell in column), starting from 0
RECURSIVE MaxLength(_, _, _)
MaxLength(cells, c, r) ==
    IF r = 0 THEN 0
    ELSE Max(Len(str(cells[r][c].value)), MaxLength(cells, c, r - 1))

\* Variant: a value longer than the cap is replaced by a shortened text.
ColumnWidthsTruncating(ws, margin, cap) ==
    [ws EXCEPT !.widths =
        [c \in 1..NCols(ws.cells) |->
           Min(MaxLength(ws.cells, c, Len(ws.cells)) + margin, cap)],
               !.cells =
        [r \in 1..Len(ws.cells) |->
           [c \in 1..NCols(ws.cells) |->
              IF Len(str(ws.cells[r][c].value)) > cap
              THEN [ws.cells[r][c] EXCEPT !.value = S("...")]
              ELSE ws.cells[r][c]]]]

\* "for column in ws.columns": every column of the populated rectangle, none
\* for a sheet without cells.
ColumnWidths(ws, margin, cap) ==
    [ws EXCEPT !.widths =
        [c \in 1..NCols(ws.cells) |->
           Min(MaxLength(ws.cells, c, Len(ws.cells)) + margin, cap)]]

\* The loop of the data-structures script when measuring the cell in row
\* skip[1], column skip[2] raises: "except: pass" goes on with the next cell.
RECURSIVE MaxLengthSkipping(_, _, _, _)
MaxLengthSkipping(cells, c, r, skip) ==
    IF r = 0 THEN 0
    ELSE IF <<r, c>> = skip THEN MaxLengthSkipping(cells, c, r - 1, skip)
    ELSE Max(Len(str(cells[r][c].value)), MaxLengthSkipping(cells, c, r - 1, skip))

ColumnWidthsSkipping(ws, margin, cap, skip) ==
    [ws EXCEPT !.widths =
        [c \in 1..NCols(ws.cells) |->
           Min(MaxLengthSkipping(ws.cells, c, Len(ws.cells), skip) + margin, cap)]]

\* Variant: the pass over the rows goes one row beyond the last, which makes
\* a row of empty cells with borders.
BandingExtraRow(ws) ==
    [ws EXCEPT !.cells =
        [r \in 1..Len(ws.cells) |->
           IF r < 2 THEN ws.cells[r]
           ELSE [c \in 1..Len(ws.cells[r]) |->
                   [ws.cells[r][c] EXCEPT
                      !.fill = IF r % 2 = 0 /\ @ = UNFILLED_COLOR
                               THEN LIGHT_FILL ELSE @,
                      !.border = THIN_BORDER]]]
        \o << [c \in 1..NCols(ws.cells) |-> [EmptyCell EXCEPT !.border = THIN_BORDER]] >>]

\* Variant: the rows with an odd row number are banded.
BandingOddRows(ws) ==
    [ws EXCEPT !.cells =
        [r \in 1..Len(ws.cells) |->
           IF r < 2 THEN ws.cells[r]
           ELSE [c \in 1..Len(ws.cells[r]) |->
                   [ws.cells[r][c] EXCEPT
                      !.fill = IF r % 2 = 1 /\ @ = UNFILLED_COLOR
                               THEN LIGHT_FILL ELSE @,
                      !.border = THIN_BORDER]]]]

\* Variant: the banding fill is set without looking at the cell's fill.
BandingNoGuard(ws) ==
    [ws EXCEPT !.cells =
        [r \in 1..Len(ws.cells) |->
           IF r < 2 THEN ws.cells[r]
           ELSE [c \in 1..Len(ws.cells[r]) |->
                   [ws.cells[r][c] EXCEPT
                      !.fill = IF r % 2 = 0 THEN LIGHT_FILL ELSE @,
                      !.border = THIN_BORDER]]]]

\* Variant: the border is set inside the "if", on the banded rows only.
BandingBorderInIf(ws) ==
    [ws EXCEPT !.cells =
        [r \in 1..Len(ws.cells) |->
           IF r < 2 THEN ws.cells[r]
           ELSE [c \in 1..Len(ws.cells[r]) |->
                   [ws.cells[r][c] EXCEPT
                      !.fill = IF r % 2 = 0 /\ @ = UNFILLED_COLOR
                               THEN LIGHT_FILL ELSE @,
                      !.border = IF r % 2 = 0 THEN THIN_BORDER ELSE @]]]]

\* The rows from row 2 on: the unfilled cells of the rows with an even row
\* number get the light fill, every cell gets the border.
Banding(ws) ==
    [ws EXCEPT !.cells =
        [r \in 1..Len(ws.cells) |->
           IF r < 2 THEN ws.cells[r]
           ELSE [c \in 1..Len(ws.cells[r]) |->
                   [ws.cells[r][c] EXCEPT
                      !.fill = IF r % 2 = 0 /\ @ = UNFILLED_COLOR
                               THEN LIGHT_FILL ELSE @,
                      !.border = THIN_BORDER]]]]

format_worksheet(ws, header_color) ==
    Banding(ColumnWidths(FreezePanes(AutoFilter(HeaderStyle(ws, header_color)), TRUE),
                         WidthMargin, WidthCap))

\* Variant: every sheet gets the default colour.
colorsDefaultOnly(sheet_name) == DEFAULT_HEADER_COLOR

\* colors.get(sheet_name, '4472C4')
colors(sheet_name) ==
    CASE sheet_name = "STL Algorithms" -> "4472C4"
      [] sheet_name = "Vector Methods" -> "70AD47"
      [] sheet_name = "Map Methods" -> "FFC000"
      [] sheet_name = "Set Methods" -> "5B9BD5"
      [] sheet_name = "Other Containers" -> "A5A5A5"
      [] OTHER -> DEFAULT_HEADER_COLOR

\* ------------------------------------------------------------------------
\* The workbooks a run starts from
\* ------------------------------------------------------------------------
RECURSIVE SumTo(_, _)
SumTo(lens, k) == IF k = 0 THEN 0 ELSE lens[k] + SumTo(lens, k - 1)

\* n tables named names[1..n]; table k holds lens[k] records of flat, in order.
Workbook(names, lens, flat) ==
    [k \in 1..Len(names) |->
       [name |-> names[k],
        records |-> SubSeq(flat, SumTo(lens, k - 1) + 1, SumTo(lens, k))]]

Distinct(seq) == \A a, b \in 1..Len(seq) : a # b => seq[a] # seq[b]

AnyNames(n) == [1..n -> SheetNames]
UniqueNames(n) == {names \in AnyNames(n) : Distinct(names)}

Workbooks(n, m, NameSeqs) ==
    {Workbook(names, lens, flat) :
        names \in NameSeqs,
        lens \in {l \in [1..n -> 0..m] : SumTo(l, n) = m},
        flat \in [1..m -> RecordPool]}

InitRun ==
    /\ script \in {"cpp", "ds"}
    /\ pc = "start"
    /\ idx = 1
    /\ book = <<>>
    /\ disk \in {Absent, Previous}
    /\ handle = "none"
    /\ stage = "none"
    /\ printed = FALSE
    /\ output = <<>>
    /\ caught = 0
    /\ rendered = <<>>

\* The scripts' workbooks: at least one table, sheet names all different.
Init ==
    /\ InitRun
    /\ \E n \in 1..MaxTables, m \in 0..MaxRecords :
          tables \in Workbooks(n, m, UniqueNames(n))

\* Workbooks in which sheet names may repeat.
InitDup ==
    /\ InitRun
    /\ \E n \in 1..MaxTables, m \in 0..MaxRecords :
          tables \in Workbooks(n, m, AnyNames(n))

\* ------------------------------------------------------------------------
\* The run
\* ------------------------------------------------------------------------
\* The progress lines of the C++ catalog script, printed before its write
\* block and before the reload; the data-structures script prints none.
Progress(step) ==
    IF script # "cpp" THEN <<>>
    ELSE IF step = "write" THEN <<"Writing to cpp_dsa_functions_catalog.xlsx...">>
    ELSE <<"Applying formatting...">>

\* No statement of the scripts handles a failure that leaves the run: the
\* interpreter prints the traceback, which names the statement that raised.
Traceback(statement) == <<"Traceback: " \o statement>>

\* with pd.ExcelWriter(path, engine='openpyxl') as writer: the file is
\* opened for writing, which empties it, and the writer's book has no sheet.
OpenWriter ==
    /\ pc = "start"
    /\ pc' = "write"
    /\ handle' = "open"
    /\ disk' = Truncated
    /\ book' = <<>>
    /\ idx' = 1
    /\ output' = output \o Progress("write")
    /\ UNCHANGED <<caught, rendered>>
    /\ UNCHANGED <<script, tables, stage, printed>>

\* The destination cannot be opened.
OpenFail ==
    /\ pc = "start"
    /\ pc' = "failed"
    /\ stage' = "open"
    /\ output' = output \o Progress("write") \o Traceback("with pd.ExcelWriter")
    /\ UNCHANGED <<caught, rendered>>
    /\ UNCHANGED <<script, tables, idx, book, disk, handle, printed>>

\* Variant: after the last table the writing starts again at the first.
WriteTableWrapping ==
    /\ pc = "write"
    /\ idx <= Len(tables)
    /\ \E df \in {DataFrame(tables[idx].records)} :
          book' = to_excel(book, df, tables[idx].name)
    /\ idx' = IF idx = Len(tables) THEN 1 ELSE idx + 1
    /\ UNCHANGED <<output, caught, rendered>>
    /\ UNCHANGED <<script, tables, pc, disk, handle, stage, printed>>

\* df = pd.DataFrame(records); df.to_excel(writer, sheet_name=name, index=False)
WriteTable ==
    /\ pc = "write"
    /\ idx <= Len(tables)
    /\ \E df \in {DataFrame(tables[idx].records)} :
          book' = to_excel(book, df, tables[idx].name)
    /\ idx' = idx + 1
    /\ UNCHANGED <<output, caught, rendered>>
    /\ UNCHANGED <<script, tables, pc, disk, handle, stage, printed>>

\* Variant: the data-structures script formats its sheets as the C++ catalog
\* script does.
SizeColumnsFormatting ==
    /\ script = "ds"
    /\ pc = "write"
    /\ idx > Len(tables)
    /\ book' = [k \in 1..Len(book) |->
                 format_worksheet(book[k], colors(book[k].title))]
    /\ pc' = "sized"
    /\ UNCHANGED <<output, caught, rendered>>
    /\ UNCHANGED <<script, tables, idx, disk, handle, stage, printed>>

\* The data-structures script sizes the columns of every sheet inside the
\* with block, before the book is saved.
SizeColumns ==
    /\ script = "ds"
    /\ pc = "write"
    /\ idx > Len(tables)
    /\ book' = [k \in 1..Len(book) |-> ColumnWidths(book[k], DsWidthMargin, DsWidthCap)]
    /\ pc' = "sized"
    /\ UNCHANGED <<output, caught, rendered>>
    /\ UNCHANGED <<script, tables, idx, disk, handle, stage, printed>>

\* The same loop when something is raised inside its try block while one
\* cell is measured (the bare except catches whatever is raised, an interrupt
\* from the keyboard or a lack of memory included): the cell is left out of
\* the maximum and the run goes on.
SizeColumnsCaught ==
    /\ script = "ds"
    /\ pc = "write"
    /\ idx > Len(tables)
    /\ \E k \in 1..Len(book) :
          \E r \in 1..Len(book[k].cells), c \in 1..NCols(book[k].cells) :
              book' = [j \in 1..Len(book) |->
                         IF j = k
                         THEN ColumnWidthsSkipping(book[j], DsWidthMargin, DsWidthCap,
                                                   <<r, c>>)
                         ELSE ColumnWidths(book[j], DsWidthMargin, DsWidthCap)]
    /\ pc' = "sized"
    /\ caught' = caught + 1
    /\ UNCHANGED <<output, rendered>>
    /\ UNCHANGED <<script, tables, idx, disk, handle, stage, printed>>

AtClose ==
    \/ script = "cpp" /\ pc = "write" /\ idx > Len(tables)
    \/ script = "ds" /\ pc = "sized"

\* Leaving the with block: writer.close() saves the book into the handle
\* and closes the handle.
CloseWriter ==
    /\ AtClose
    /\ disk' = Xlsx(book)
    /\ handle' = "closed"
    /\ pc' = IF script = "cpp" THEN "load" ELSE "summary"
    /\ output' = output \o Progress("format")
    /\ UNCHANGED <<caught, rendered>>
    /\ UNCHANGED <<script, tables, idx, book, stage, printed>>

\* A statement of the with block raises: the block is left through
\* writer.close(), which saves the sheets written so far; saving a book
\* without sheets raises in turn, before the handle is closed.
WriteFail ==
    /\ pc = "write"
    /\ idx <= Len(tables) \/ script = "ds"
    /\ pc' = "failed"
    /\ stage' = "write"
    /\ IF book = <<>>
       THEN UNCHANGED <<disk, handle>>
       ELSE disk' = Xlsx(book) /\ handle' = "closed"
    /\ output' = output \o Traceback("to_excel")
    /\ UNCHANGED <<caught, rendered>>
    /\ UNCHANGED <<script, tables, idx, book, printed>>

\* Variant: the half written file is removed after the failed save.
CloseFailCleanup ==
    /\ AtClose
    /\ pc' = "failed"
    /\ stage' = "close"
    /\ disk' = Absent
    /\ output' = output \o Traceback("with pd.ExcelWriter")
    /\ UNCHANGED <<caught, rendered>>
    /\ UNCHANGED <<script, tables, idx, book, handle, printed>>

\* The save of writer.close() breaks off (disk full): close() does not get
\* to closing the handle.
CloseFail ==
    /\ AtClose
    /\ pc' = "failed"
    /\ stage' = "close"
    /\ disk' = Partial
    /\ output' = output \o Traceback("with pd.ExcelWriter")
    /\ UNCHANGED <<caught, rendered>>
    /\ UNCHANGED <<script, tables, idx, book, handle, printed>>

\* wb = load_workbook(output_file)
LoadWorkbook ==
    /\ pc = "load"
    /\ book' = load_workbook(disk)
    /\ idx' = 1
    /\ pc' = "format"
    /\ UNCHANGED <<output, caught, rendered>>
    /\ UNCHANGED <<script, tables, disk, handle, stage, printed>>

LoadFail ==
    /\ pc = "load"
    /\ pc' = "failed"
    /\ stage' = "load"
    /\ output' = output \o Traceback("load_workbook")
    /\ UNCHANGED <<caught, rendered>>
    /\ UNCHANGED <<script, tables, idx, book, disk, handle, printed>>

\* Variant: the book is saved to the path after every sheet.
FormatSheetSaving ==
    /\ pc = "format"
    /\ idx <= Len(book)
    /\ book' = [book EXCEPT ![idx] = format_worksheet(@, colors(@.title))]
    /\ disk' = Xlsx(book')
    /\ idx' = idx + 1
    /\ UNCHANGED <<output, caught, rendered>>
    /\ UNCHANGED <<script, tables, pc, handle, stage, printed>>

\* for sheet_name in wb.sheetnames:
\*     format_worksheet(wb[sheet_name], header_color=colors.get(sheet_name, '4472C4'))
FormatSheet ==
    /\ pc = "format"
    /\ idx <= Len(book)
    /\ book' = [book EXCEPT ![idx] = format_worksheet(@, colors(@.title))]
    /\ idx' = idx + 1
    /\ UNCHANGED <<output, caught, rendered>>
    /\ UNCHANGED <<script, tables, pc, disk, handle, stage, printed>>

FormatFail ==
    /\ pc = "format"
    /\ idx <= Len(book)
    /\ pc' = "failed"
    /\ stage' = "format"
    /\ output' = output \o Traceback("format_worksheet")
    /\ UNCHANGED <<caught, rendered>>
    /\ UNCHANGED <<script, tables, idx, book, disk, handle, printed>>

\* wb.save(output_file)
SaveWorkbook ==
    /\ pc = "format"
    /\ idx > Len(book)
    /\ disk' = Xlsx(book)
    /\ pc' = "summary"
    /\ UNCHANGED <<output, caught, rendered>>
    /\ UNCHANGED <<script, tables, idx, book, handle, stage, printed>>

\* wb.save fails: either the path cannot be opened for writing, and the file
\* stays as it is, or the save breaks off (disk full) after the open has
\* emptied the file, and the archive is left half written and not closed.
SaveFail ==
    /\ pc = "format"
    /\ idx > Len(book)
    /\ \E opened \in BOOLEAN :
          IF opened
          THEN disk' = Partial /\ handle' = "open"
          ELSE UNCHANGED <<disk, handle>>
    /\ pc' = "failed"
    /\ stage' = "save"
    /\ output' = output \o Traceback("wb.save")
    /\ UNCHANGED <<caught, rendered>>
    /\ UNCHANGED <<script, tables, idx, book, printed>>

\* The closing print statements.
PrintSummary ==
    /\ pc = "summary"
    /\ printed' = TRUE
    /\ pc' = "done"
    /\ output' = output \o <<"summary">>
    /\ UNCHANGED <<caught, rendered>>
    /\ UNCHANGED <<script, tables, idx, book, disk, handle, stage>>

Next ==
    \/ OpenWriter
    \/ OpenFail
    \/ WriteTable
    \/ SizeColumns
    \/ SizeColumnsCaught
    \/ CloseWriter
    \/ WriteFail
    \/ CloseFail
    \/ LoadWorkbook
    \/ LoadFail
    \/ FormatSheet
    \/ FormatFail
    \/ SaveWorkbook
    \/ SaveFail
    \/ PrintSummary

Spec == Init /\ [][Next]_vars

SpecDup == InitDup /\ [][Next]_vars

\* The scripts are straight-line programs run by one interpreter: as long as
\* a statement is left to execute, one is executed.
\* The workbooks of the runs whose end is checked: tables under the first
\* names of NameOrder, of every size, their records taken in turn from two
\* records with differing field names.
NameOrder == <<"Demo", "Set Methods", "Other Containers">>

InitLive ==
    /\ InitRun
    /\ \E n \in 1..MaxTables, m \in 0..MaxLiveRecords :
          \E lens \in {l \in [1..n -> 0..m] : SumTo(l, n) = m} :
              tables = Workbook(SubSeq(NameOrder, 1, n), lens,
                                [i \in 1..m |-> IF i % 2 = 1 THEN RecordA ELSE RecordC])

SpecLive == InitLive /\ [][Next]_vars /\ WF_vars(Next)

\* The script is run a second time on the same tables, to another path: a
\* new process, which finds at its path no file or an earlier one.
RunAgain ==
    /\ pc = "done"
    /\ rendered = <<>>
    /\ rendered' = <<disk>>
    /\ pc' = "start"
    /\ idx' = 1
    /\ book' = <<>>
    /\ disk' \in {Absent, Previous}
    /\ handle' = "none"
    /\ printed' = FALSE
    /\ output' = <<>>
    /\ caught' = 0
    /\ UNCHANGED <<script, tables, stage>>

\* Two runs of the C++ catalog script.
InitTwice ==
    /\ Init
    /\ script = "cpp"

NextTwice ==
    \/ OpenWriter
    \/ OpenFail
    \/ WriteTable
    \/ CloseWriter
    \/ WriteFail
    \/ CloseFail
    \/ LoadWorkbook
    \/ LoadFail
    \/ FormatSheet
    \/ FormatFail
    \/ SaveWorkbook
    \/ SaveFail
    \/ PrintSummary
    \/ RunAgain

SpecTwice == InitTwice /\ [][NextTwice]_vars

\* ------------------------------------------------------------------------
\* format_worksheet on its own: any worksheet of a loaded workbook, one
\* block of the function per step
\* ------------------------------------------------------------------------
PRESET_FILL == Color("FFFF00")

\* A frame of nc columns and nr rows, as a caller may build one: the frame
\* has its columns also when it has no row.
Frame(nc, nr) ==
    [columns |-> [c \in 1..nc |-> "Col" \o get_column_letter(c)],
     rows |-> [r \in 1..nr |->
                 [c \in 1..nc |-> IF c = 1 THEN S(get_column_letter(r)) ELSE N(r)]]]

\* The sheet that to_excel writes for the frame, as it is loaded from the
\* file; fills[r][c] is the fill that the cell of data row r already has.
LoadedSheet(title, nc, nr, fills) ==
    LET ws == XlsxSheet(Worksheet(title, FrameCells(Frame(nc, nr))))
    IN  [ws EXCEPT !.cells =
            [r \in 1..Len(ws.cells) |->
               IF r = 1 THEN ws.cells[r]
               ELSE [c \in 1..nc |-> [ws.cells[r][c] EXCEPT !.fill = fills[r - 1][c]]]]]

InitFormat ==
    /\ script = "cpp"
    /\ tables = <<>>
    /\ pc = "fmt_header"
    /\ idx = 1
    /\ disk = Absent
    /\ handle = "none"
    /\ stage = "none"
    /\ printed = FALSE
    /\ output = <<>>
    /\ caught = 0
    /\ rendered = <<>>
    /\ \E title \in SheetNames, nc \in 0..MaxCols, nr \in 0..MaxRows :
          /\ nc = 0 => nr = 0
          /\ \E fills \in [1..nr -> [1..nc -> {UNFILLED_COLOR, PRESET_FILL}]] :
                book = << LoadedSheet(title, nc, nr, fills) >>

\* "Apply to header row"
FormatHeader ==
    /\ pc = "fmt_header"
    /\ pc' = "fmt_filter"
    /\ book' = [book EXCEPT ![1] = HeaderStyle(@, colors(@.title))]
    /\ UNCHANGED <<output, caught, rendered>>
    /\ UNCHANGED <<script, tables, idx, disk, handle, stage, printed>>

\* "Auto-filter"
FormatAutoFilter ==
    /\ pc = "fmt_filter"
    /\ pc' = "fmt_freeze"
    /\ book' = [book EXCEPT ![1] = AutoFilter(@)]
    /\ UNCHANGED <<output, caught, rendered>>
    /\ UNCHANGED <<script, tables, idx, disk, handle, stage, printed>>

\* "Freeze panes"
FormatFreeze ==
    /\ pc = "fmt_freeze"
    /\ pc' = "fmt_widths"
    /\ book' = [book EXCEPT ![1] = FreezePanes(@, TRUE)]
    /\ UNCHANGED <<output, caught, rendered>>
    /\ UNCHANGED <<script, tables, idx, disk, handle, stage, printed>>

\* "Adjust column widths"
FormatWidths ==
    /\ pc = "fmt_widths"
    /\ pc' = "fmt_band"
    /\ book' = [book EXCEPT ![1] = ColumnWidths(@, WidthMargin, WidthCap)]
    /\ UNCHANGED <<output, caught, rendered>>
    /\ UNCHANGED <<script, tables, idx, disk, handle, stage, printed>>

\* "Alternate row colors" and the borders
FormatBanding ==
    /\ pc = "fmt_band"
    /\ pc' = "fmt_done"
    /\ book' = [book EXCEPT ![1] = Banding(@)]
    /\ UNCHANGED <<output, caught, rendered>>
    /\ UNCHANGED <<script, tables, idx, disk, handle, stage, printed>>

NextFormat ==
    \/ FormatHeader
    \/ FormatAutoFilter
    \/ FormatFreeze
    \/ FormatWidths
    \/ FormatBanding

SpecFormat == InitFormat /\ [][NextFormat]_vars

\* ------------------------------------------------------------------------
\* The two column width loops on their own: format_worksheet on a loaded
\* sheet, and the loop of the data-structures script on a sheet just written
\* ------------------------------------------------------------------------
\* What the cells of the first column may hold: nothing, a short text, a
\* number, a text longer than the caps.
WidthValues == {NaN, S("a"), N(12), S(LongText)}

\* Names for the first column: shorter and longer than the text "None".
WidthHeaders == {"ID", "Container"}

\* Frame(nc, nr) with the first column named head and holding vals.
WidthFrame(head, nc, vals) ==
    LET df == Frame(nc, Len(vals))
    IN  [columns |-> [c \in 1..nc |-> IF c = 1 THEN head ELSE df.columns[c]],
         rows |-> [r \in 1..Len(vals) |->
                     [c \in 1..nc |-> IF c = 1 THEN vals[r] ELSE df.rows[r][c]]]]

InitWidth ==
    /\ script \in {"cpp", "ds"}
    /\ tables = <<>>
    /\ idx = 1
    /\ disk = Absent
    /\ handle = "none"
    /\ stage = "none"
    /\ printed = FALSE
    /\ output = <<>>
    /\ caught = 0
    /\ rendered = <<>>
    /\ \E title \in SheetNames, head \in WidthHeaders,
          nc \in 1..MaxCols, nr \in 0..MaxRows :
          \E vals \in [1..nr -> WidthValues] :
              LET ws == Worksheet(title, FrameCells(WidthFrame(head, nc, vals)))
              IN  IF script = "cpp"
                  THEN pc = "fmt_header" /\ book = << XlsxSheet(ws) >>
                  ELSE pc = "ds_widths" /\ book = << ws >>

\* The loop of the data-structures script over one sheet of writer.sheets.
DsWidths ==
    /\ pc = "ds_widths"
    /\ pc' = "fmt_done"
    /\ book' = [book EXCEPT ![1] = ColumnWidths(@, DsWidthMargin, DsWidthCap)]
    /\ UNCHANGED <<output, caught, rendered>>
    /\ UNCHANGED <<script, tables, idx, disk, handle, stage, printed>>

NextWidth ==
    \/ FormatHeader
    \/ FormatAutoFilter
    \/ FormatFreeze
    \/ FormatWidths
    \/ FormatBanding
    \/ DsWidths

SpecWidth == InitWidth /\ [][NextWidth]_vars

\* ------------------------------------------------------------------------
\* Properties
\* ------------------------------------------------------------------------
\* All records of a table have the same keys in the same order, and there is
\* at least one record to take the field names from.
Consistent(t) ==
    /\ Len(t.records) >= 1
    /\ \A a, b \in 1..Len(t.records) : Keys(t.records[a]) = Keys(t.records[b])

AllConsistent == \A k \in 1..Len(tables) : Consistent(tables[k])

FieldNames(t) == Keys(t.records[1])

HeaderValues(ws) == [c \in 1..NCols(ws.cells) |-> ws.cells[1][c].value]

RowValues(ws, r) == [c \in 1..NCols(ws.cells) |-> ws.cells[r][c].value]

\* The C++ catalog script has run to its end: the file holds the formatted book.
Formatted == script = "cpp" /\ pc = "done"

RowBanded(ws, r) == \A c \in 1..NCols(ws.cells) : ws.cells[r][c].fill = LIGHT_FILL

\* C1: for a workbook with unique sheet names whose tables each have records
\* with the same field names in the same order, a run that reaches its end
\* has succeeded (no failure, summary printed) and the file holds exactly one
\* sheet per table, in the order of the tables, each with row 1 equal to the
\* table's field names in order.
C1_OneSheetPerTable ==
    AllConsistent =>
        /\ stage # "none" <=> pc = "failed"
        /\ pc = "done" =>
              /\ printed
              /\ disk.kind = "xlsx"
              /\ Len(disk.book) = Len(tables)
              /\ \A k \in 1..Len(tables) :
                    /\ disk.book[k].title = tables[k].name
                    /\ HeaderValues(disk.book[k])
                         = [c \in 1..Len(FieldNames(tables[k])) |->
                              S(FieldNames(tables[k])[c])]

C1_Witness ==
    /\ pc = "done"
    /\ AllConsistent
    /\ Len(tables) = 2
    /\ Len(disk.book) = 2
    /\ \E k \in 1..2 : Len(tables[k].records) = 2

\* C2 as stated: the banded rows of a formatted sheet are exactly the sheet
\* rows 3, 5, 7, ... (the 2nd, 4th, ... data rows); in the table Demo with the
\* records (a,1),(b,2) the row of b is banded and the row of a is not.
C2_Original ==
    Formatted =>
        \A k \in 1..Len(disk.book) :
            /\ \A r \in 2..Len(disk.book[k].cells) :
                  RowBanded(disk.book[k], r) <=> (r % 2 = 1)
            /\ tables[k].records = <<RecordA, RecordB>> =>
                  /\ RowBanded(disk.book[k], 3)
                  /\ ~RowBanded(disk.book[k], 2)

\* C2 amended: the banded rows of a formatted sheet are exactly the sheet rows
\* with an even number, 2, 4, 6, ... (the 1st, 3rd, ... data rows); in the
\* table Demo with the records (a,1),(b,2) the row of a (sheet row 2) is
\* banded and the row of b (sheet row 3) is not.
C2_EvenSheetRowsBanded ==
    Formatted =>
        \A k \in 1..Len(disk.book) :
            /\ \A r \in 2..Len(disk.book[k].cells) :
                  RowBanded(disk.book[k], r) <=> (r % 2 = 0)
            /\ tables[k].records = <<RecordA, RecordB>> =>
                  /\ RowValues(disk.book[k], 2) = <<S("a"), N(1)>>
                  /\ RowBanded(disk.book[k], 2)
                  /\ RowValues(disk.book[k], 3) = <<S("b"), N(2)>>
                  /\ ~RowBanded(disk.book[k], 3)

C2_Witness ==
    /\ Formatted
    /\ \E k \in 1..Len(tables) :
          /\ tables[k].name = "Demo"
          /\ tables[k].records = <<RecordA, RecordB>>
          /\ RowBanded(disk.book[k], 2)

SheetNameSeq == [k \in 1..Len(tables) |-> tables[k].name]

HasDuplicateNames == ~Distinct(SheetNameSeq)

\* C3: a run on a workbook in which two tables share a sheet name fails
\* before any file is created: it never gets to its summary, and the output
\* path stays absent or keeps the content it had before the run.
C3_DuplicateNamesRejected ==
    (HasDuplicateNames /\ stage = "none") =>
        /\ pc \notin {"summary", "done"}
        /\ disk \in {Absent, Previous}

\* Some record of the table has other field names than another one.
Inconsistent(t) ==
    \E a, b \in 1..Len(t.records) : Keys(t.records[a]) # Keys(t.records[b])

FirstRecord(t, key) ==
    CHOOSE r \in 1..Len(t.records) :
        /\ Has(Keys(t.records[r]), key)
        /\ \A q \in 1..(r - 1) : ~Has(Keys(t.records[q]), key)

PlaceIn(rec, key) == CHOOSE p \in 1..Len(rec) : rec[p][1] = key

Before(t, key1, key2) ==
    \/ FirstRecord(t, key1) < FirstRecord(t, key2)
    \/ /\ FirstRecord(t, key1) = FirstRecord(t, key2)
       /\ PlaceIn(t.records[FirstRecord(t, key1)], key1)
            < PlaceIn(t.records[FirstRecord(t, key1)], key2)

DataRows(ws) == Max(Len(ws.cells) - 1, 0)

\* The file holds a book that a completed write stage has saved.
WrittenFile == disk.kind = "xlsx" /\ stage # "write"

\* C5: whenever the file holds the book of a completed write stage, before
\* and after formatting, and in the book being formatted, every table's sheet
\* has as many rows below the header as the table has records.
C5_RowCount ==
    /\ WrittenFile =>
          /\ Len(disk.book) = Len(tables)
          /\ \A k \in 1..Len(tables) :
                DataRows(disk.book[k]) = Len(tables[k].records)
    /\ pc = "format" =>
          /\ Len(book) = Len(tables)
          /\ \A k \in 1..Len(tables) :
                DataRows(book[k]) = Len(tables[k].records)

C5_Witness ==
    /\ Formatted
    /\ Len(tables) = 2
    /\ \E k \in 1..2 :
          /\ Len(tables[k].records) = 2
          /\ DataRows(disk.book[k]) = 2

ColumnOf(ws, key) ==
    CHOOSE c \in 1..NCols(ws.cells) : ws.cells[1][c].value = S(key)

RecordRow(ws, rec) ==
    [c \in 1..NCols(ws.cells) |->
       XlsxValue(ExcelValue(Lookup(rec, ws.cells[1][c].value.s)))]

\* C7: in the written file the rows of a sheet are the table's records in
\* their input order: of two records the earlier one is in the higher row,
\* record r in sheet row r + 1.
C7_RecordOrder ==
    WrittenFile =>
        \A k \in 1..Len(tables) :
            \A r1, r2 \in 1..Len(tables[k].records) :
                r1 < r2 =>
                    /\ RowValues(disk.book[k], r1 + 1)
                         = RecordRow(disk.book[k], tables[k].records[r1])
                    /\ RowValues(disk.book[k], r2 + 1)
                         = RecordRow(disk.book[k], tables[k].records[r2])

C7_Witness ==
    /\ Formatted
    /\ \E k \in 1..Len(tables) :
          /\ tables[k].records = <<RecordB, RecordA>>
          /\ RowValues(disk.book[k], 2) = <<S("b"), N(2)>>
          /\ RowValues(disk.book[k], 3) = <<S("a"), N(1)>>

HeaderStyled(ws) ==
    \A c \in 1..NCols(ws.cells) :
        /\ ws.cells[1][c].fill = Color(colors(ws.title))
        /\ ws.cells[1][c].font = HEADER_FONT
        /\ ws.cells[1][c].alignment = HEADER_ALIGNMENT
        /\ ws.cells[1][c].border = THIN_BORDER

NoCellBanded(ws) ==
    \A r \in 1..Len(ws.cells) :
        \A c \in 1..NCols(ws.cells) : ws.cells[r][c].fill # LIGHT_FILL

\* C8: format_worksheet leaves a sheet of one row (a header without records)
\* at one row, and after it the auto-filter range is the rectangle of the
\* header row, the frozen pane is anchored at B2, every header cell has the
\* header style and no cell has the banding fill.
C8_HeaderOnlySheet ==
    /\ [](pc = "fmt_done" /\ Len(book[1].cells) = 1 =>
             /\ book[1].auto_filter
                  = "A1:" \o get_column_letter(NCols(book[1].cells)) \o "1"
             /\ book[1].freeze_panes = "B2"
             /\ HeaderStyled(book[1])
             /\ NoCellBanded(book[1]))
    /\ [][Len(book[1].cells) = 1 => Len(book'[1].cells) = 1]_vars

C8_Witness ==
    /\ pc = "fmt_done"
    /\ Len(book[1].cells) = 1
    /\ NCols(book[1].cells) = 2
    /\ book[1].cells[1][1].value = S("ColA")
    /\ book[1].auto_filter = "A1:B1"

\* C9: the banding pass leaves every cell that has a fill other than the
\* unfilled default with the fill it had, and no cell of row 1 ever has the
\* banding fill.
C9_BandingKeepsFills ==
    /\ [](\A c \in 1..NCols(book[1].cells) : book[1].cells[1][c].fill # LIGHT_FILL)
    /\ [][pc = "fmt_band" =>
            \A r \in 1..Len(book[1].cells) :
                \A c \in 1..NCols(book[1].cells) :
                    book[1].cells[r][c].fill # UNFILLED_COLOR
                        => book'[1].cells[r][c].fill = book[1].cells[r][c].fill]_vars

C9_Witness ==
    /\ pc = "fmt_done"
    /\ NCols(book[1].cells) = 2
    /\ Len(book[1].cells) >= 2
    /\ book[1].cells[2][1].fill = PRESET_FILL
    /\ book[1].cells[2][2].fill = LIGHT_FILL

\* C10: in the formatted file every cell below the header, in banded and in
\* other rows, has the thin black border on its four sides that the header
\* cell of its column has.
C10_BorderEverywhere ==
    Formatted =>
        \A k \in 1..Len(disk.book) :
            \A r \in 1..Len(disk.book[k].cells) :
                \A c \in 1..NCols(disk.book[k].cells) :
                    /\ disk.book[k].cells[r][c].border = THIN_BORDER
                    /\ disk.book[k].cells[r][c].border = disk.book[k].cells[1][c].border

C10_Witness ==
    /\ Formatted
    /\ \E k \in 1..Len(disk.book) :
          /\ Len(disk.book[k].cells) = 4
          /\ RowBanded(disk.book[k], 2)
          /\ ~RowBanded(disk.book[k], 3)
          /\ disk.book[k].cells[3][1].border = THIN_BORDER

\* The length of the text a cell shows: none for a cell without value.
TextLength(v) == IF v = None \/ v = S("") THEN 0 ELSE Len(str(v))

RECURSIVE MaxTextLength(_, _, _)
MaxTextLength(cells, c, r) ==
    IF r = 0 THEN 0
    ELSE Max(TextLength(cells[r][c].value), MaxTextLength(cells, c, r - 1))

\* C11: after a width loop every column has the width min(M + margin, cap),
\* M the longest text of the cells of the column, header included; margin and
\* cap are 3 and 60 in format_worksheet, 2 and 50 in the data-structures
\* script.
C11_WidthIsLongestTextPlusMargin ==
    pc = "fmt_done" =>
        \A c \in 1..NCols(book[1].cells) :
            book[1].widths[c]
              = IF script = "cpp"
                THEN Min(MaxTextLength(book[1].cells, c, Len(book[1].cells)) + 3, 60)
                ELSE Min(MaxTextLength(book[1].cells, c, Len(book[1].cells)) + 2, 50)

\* The field names that occur in the records of a table.
FieldSet(t) == UNION {{t.records[i][j][1] : j \in 1..Len(t.records[i])} :
                        i \in 1..Len(t.records)}

\* C12: in the formatted file the auto-filter range of every sheet is the
\* rectangle from A1 to the last column and the last row of the table, the
\* header row included: as many columns as the table has field names, one
\* row more than it has records (the one cell A1 for a table without
\* records).
C12_FilterCoversRectangle ==
    Formatted =>
        \A k \in 1..Len(tables) :
            disk.book[k].auto_filter
              = IF Len(tables[k].records) = 0 THEN "A1:A1"
                ELSE "A1:" \o Letters[Cardinality(FieldSet(tables[k]))]
                           \o ToString(Len(tables[k].records) + 1)

C12_Witness ==
    /\ Formatted
    /\ \E k \in 1..Len(tables) :
          /\ tables[k].records = <<RecordA, RecordC, RecordB>>
          /\ disk.book[k].auto_filter = "A1:C4"

\* C13: in the formatted file the frozen pane of every sheet is anchored at
\* B2, whatever the sheet holds; the file written before formatting has no
\* frozen pane.
C13_FrozenAtB2 ==
    /\ Formatted => \A k \in 1..Len(disk.book) : disk.book[k].freeze_panes = "B2"
    /\ script = "cpp" /\ pc \in {"load", "format"} /\ disk.kind = "xlsx"
          => \A k \in 1..Len(disk.book) : disk.book[k].freeze_panes = ""

C13_Witness ==
    /\ Formatted
    /\ Len(disk.book) = 2
    /\ Len(disk.book[1].cells) = 1 /\ disk.book[1].freeze_panes = "B2"
    /\ Len(disk.book[2].cells) = 3 /\ disk.book[2].freeze_panes = "B2"

\* The fill of the header cells of a sheet, by the sheet's name.
HeaderFillOf(title) ==
    CASE title = "Set Methods" -> "005B9BD5"
      [] title = "Other Containers" -> "00A5A5A5"
      [] OTHER -> "004472C4"

\* C14: in the formatted file every cell of row 1 of every sheet has the fill
\* colour configured for the sheet's name, 4472C4 for a name without
\* configured colour, the bold white font, the centred wrapped alignment and
\* the thin black border.
C14_HeaderCellsStyled ==
    Formatted =>
        \A k \in 1..Len(disk.book) :
            \A c \in 1..NCols(disk.book[k].cells) :
                /\ disk.book[k].cells[1][c].fill = HeaderFillOf(disk.book[k].title)
                /\ disk.book[k].cells[1][c].font = "bold_white_11"
                /\ disk.book[k].cells[1][c].alignment = "center_center_wrap"
                /\ disk.book[k].cells[1][c].border = "thin_000000"

C14_Witness ==
    /\ Formatted
    /\ Len(disk.book) = 2
    /\ disk.book[1].title = "Set Methods"
    /\ NCols(disk.book[1].cells) = 2
    /\ disk.book[1].cells[1][2].fill = "005B9BD5"
    /\ disk.book[2].title = "Demo"
    /\ NCols(disk.book[2].cells) >= 1
    /\ disk.book[2].cells[1][1].fill = "004472C4"
    /\ disk.book[2].cells[1][1].font = "bold_white_11"

C16_HandleReleased == pc \in {"failed", "done"} => handle # "open"

\* C17: a failure of the open, of a write or of a save ends the run at once
\* (the step that fails is the step that ends the run, and nothing is done
\* after it), and no step removes the file or puts back what the path held
\* before: a run that failed after the open leaves the path as the failed
\* step left it.
C17_SingleAttemptNoCleanup ==
    /\ [][stage' # stage => stage = "none" /\ pc' = "failed"]_vars
    /\ [][pc = "failed" => pc' = "failed" /\ disk' = disk]_vars
    /\ [][disk' # disk => disk'.kind \in {"truncated", "partial", "xlsx"}]_vars
    /\ [](pc = "failed" /\ stage # "open"
             => disk.kind \in {"truncated", "partial", "xlsx"})

C17_Witness ==
    /\ pc = "failed"
    /\ stage = "close"
    /\ disk = Partial
    /\ Len(book) = 2

\* C18: every failure raised in a run ends the run as failed; none is caught
\* on the way.
C18_EveryFailureEndsTheRun ==
    /\ stage # "none" => pc = "failed"
    /\ caught > 0 => pc = "failed"

\* The exit status of the process: 0 when the script has run to its end, 1
\* when a failure has left it.
ExitStatus == IF pc = "failed" THEN 1 ELSE 0

\* C19: the summary is printed only when the file holds the complete saved
\* book and no failure has been raised in the write, the formatting or the
\* save; a run in which one has been raised ends without summary and with an
\* exit status other than 0, any other with the summary and status 0.
C19_SummaryOnlyAfterSuccess ==
    /\ printed => disk.kind = "xlsx" /\ stage = "none" /\ caught = 0
    /\ pc = "failed" => ~printed /\ ExitStatus # 0
    /\ pc = "done" => (ExitStatus = 0 <=> stage = "none" /\ caught = 0)

\* The lines by which a failure shows on the terminal.
FailureLines ==
    {Traceback(st)[1] : st \in {"with pd.ExcelWriter", "to_excel", "load_workbook",
                                "format_worksheet", "wb.save"}}

\* C20: when a failure has been raised in a run, the output ends with a line
\* that tells the failure, and the line of a failure of the write stage
\* differs from the line of a failure of the formatting stage.
C20_FailureNamesStage ==
    /\ stage # "none" \/ caught > 0
          => output # <<>> /\ output[Len(output)] \in FailureLines
    /\ stage = "write" => output[Len(output)] = Traceback("to_excel")[1]
    /\ stage = "format" => output[Len(output)] = Traceback("format_worksheet")[1]

\* A sheet carries some styling: a filter range, a frozen pane, a column
\* width, or a cell with a fill, a font, an alignment or a border.
Styled(ws) ==
    \/ ws.auto_filter # ""
    \/ ws.freeze_panes # ""
    \/ \E c \in 1..Len(ws.widths) : ws.widths[c] # 0
    \/ \E r \in 1..Len(ws.cells) : \E c \in 1..NCols(ws.cells) :
          ws.cells[r][c] # Cell(ws.cells[r][c].value)

\* Every table of the workbook has been written into the book.
AllWritten == pc # "start" /\ (pc = "write" => idx > Len(tables))

\* The values that the cells of a sheet hold, with their places.
WrittenValues(ws) ==
    {<<r, c, ws.cells[r][c].value>> :
        r \in 1..Len(ws.cells), c \in 1..NCols(ws.cells)}
      \ {<<r, c, None>> : r \in 1..Len(ws.cells), c \in 1..NCols(ws.cells)}

\* C21: no sheet of the book carries any styling while a table is still
\* unwritten, and from the moment a sheet carries styling no step changes
\* the value of any cell of any sheet.
C21_FormatAfterAllWrites ==
    /\ []((\E k \in 1..Len(book) : Styled(book[k])) => AllWritten)
    /\ [][(\E k \in 1..Len(book) : Styled(book[k]))
            => /\ Len(book') = Len(book)
               /\ \A k \in 1..Len(book) :
                     WrittenValues(book'[k]) = WrittenValues(book[k])]_vars

C21_Witness ==
    /\ script = "cpp"
    /\ pc = "format"
    /\ idx = 2
    /\ Len(tables) = 2
    /\ Len(tables[1].records) = 2
    /\ Styled(book[1])
    /\ ~Styled(book[2])

\* The book that the formatting of the C++ catalog script makes of a file.
FinalArtifact(file) ==
    [k \in 1..Len(file.book) |->
       format_worksheet(file.book[k], colors(file.book[k].title))]

\* C22 as stated: whenever the path holds a workbook during a run of the C++
\* catalog script, it is the final artifact, the formatted book.
C22_Original ==
    script = "cpp" /\ stage = "none" /\ disk.kind = "xlsx"
        => disk.book = FinalArtifact(disk)

\* C22: in a run without failure the path holds, in turn, what it held
\* before the run, the emptied file from the open of the writer on, then in
\* the C++ catalog script, from the end of the write block to the final save,
\* the workbook with every table's rows and no styling at all, and at last
\* the final workbook (formatted in the C++ catalog script, saved once in the
\* data-structures script).
C22_IntermediateStates ==
    stage = "none" =>
        /\ pc = "start" => disk \in {Absent, Previous}
        /\ pc \in {"write", "sized"} => disk = Truncated
        /\ pc \in {"load", "format"} =>
              /\ script = "cpp"
              /\ disk.kind = "xlsx"
              /\ Len(disk.book) = Len(tables)
              /\ \A k \in 1..Len(disk.book) :
                    /\ ~Styled(disk.book[k])
                    /\ DataRows(disk.book[k]) = Len(tables[k].records)
        /\ pc \in {"summary", "done"} =>
              /\ disk.kind = "xlsx"
              /\ script = "cpp" =>
                    /\ disk.book = FinalArtifact(disk)
                    /\ \A k \in 1..Len(disk.book) : Styled(disk.book[k])
              /\ script = "ds" => disk = Xlsx(book)

C22_Witness ==
    /\ script = "cpp"
    /\ stage = "none"
    /\ pc = "format"
    /\ idx = 2
    /\ disk.kind = "xlsx"
    /\ DataRows(disk.book[1]) = 2
    /\ ~Styled(disk.book[1])
    /\ Styled(book[1])
    /\ disk.book # FinalArtifact(disk)

\* The run is in its formatting pass: the format loop and the save of the
\* C++ catalog script, the width loop of the data-structures script.
InFormattingPass ==
    \/ script = "cpp" /\ pc = "format"
    \/ script = "ds" /\ pc = "write" /\ idx > Len(tables)

\* C23: no step of the formatting pass changes the value of a cell, in the
\* book in memory or in the file: after formatting and saving, every sheet
\* of the file holds the values it held after the write stage, a text longer
\* than the width cap included.
C23_FormattingKeepsValues ==
    [][InFormattingPass /\ stage' = "none" =>
          /\ Len(book') = Len(book)
          /\ \A k \in 1..Len(book) :
                WrittenValues(book'[k]) = WrittenValues(book[k])
          /\ disk.kind = "xlsx" =>
                /\ disk'.kind = "xlsx"
                /\ Len(disk'.book) = Len(disk.book)
                /\ \A k \in 1..Len(disk.book) :
                      WrittenValues(disk'.book[k]) = WrittenValues(disk.book[k])]_vars

C23_Witness ==
    /\ Formatted
    /\ \E k \in 1..Len(disk.book) :
          /\ tables[k].records = <<RecordC, RecordA>>
          /\ disk.book[k].cells[2][1].value = S(LongText)
          /\ disk.book[k].widths[1] = 60
          /\ disk.book[k].cells[3][3].value = S("a")

\* The value a record gives to a field name it has.
FieldValue(rec, key) == rec[PlaceIn(rec, key)][2]

\* C24: in the written file, the sheet of a table whose records differ in
\* their field names has one column per field name that occurs in a record,
\* in order of first appearance, and one row per record; the cell of a
\* record under a field name it has holds the record's value, under a field
\* name it lacks no value at all.
C24_UnionColumnsAbsentCells ==
    stage = "none" /\ disk.kind = "xlsx" =>
        \A k \in 1..Len(tables) :
            Inconsistent(tables[k]) =>
                LET t == tables[k]
                    ws == disk.book[k]
                IN  /\ NCols(ws.cells) = Cardinality(FieldSet(t))
                    /\ Len(ws.cells) = Len(t.records) + 1
                    /\ \A c \in 1..NCols(ws.cells) :
                          /\ ws.cells[1][c].value.t = "s"
                          /\ ws.cells[1][c].value.s \in FieldSet(t)
                    /\ \A c, d \in 1..NCols(ws.cells) :
                          c < d => Before(t, ws.cells[1][c].value.s,
                                             ws.cells[1][d].value.s)
                    /\ \A r \in 1..Len(t.records) :
                          \A c \in 1..NCols(ws.cells) :
                              ws.cells[r + 1][c].value
                                = IF Has(Keys(t.records[r]), ws.cells[1][c].value.s)
                                  THEN FieldValue(t.records[r], ws.cells[1][c].value.s)
                                  ELSE None

C24_Witness ==
    /\ stage = "none"
    /\ disk.kind = "xlsx"
    /\ \E k \in 1..Len(tables) :
          /\ tables[k].records = <<RecordA, RecordC>>
          /\ RowValues(disk.book[k], 1) = <<S("Name"), S("Value"), S("Notes")>>
          /\ RowValues(disk.book[k], 2) = <<S("a"), N(1), None>>
          /\ RowValues(disk.book[k], 3) = <<None, N(3), S(LongText)>>

\* Some cell of the column holds no value.
HasAbsentCell(ws, c) == \E r \in 1..Len(ws.cells) : ws.cells[r][c].value = None

\* C25: after format_worksheet a column with a cell without value is sized
\* as if that cell held a text of four characters: when its header and its
\* values are all shorter than 4 characters its width is 7, and in general
\* its width is min(max(4, longest text) + 3, 60); a column without such a
\* cell has the width min(longest text + 3, 60).
C25_AbsentCellCountsFour ==
    script = "cpp" /\ pc = "fmt_done" =>
        \A c \in 1..NCols(book[1].cells) :
            LET longest == MaxTextLength(book[1].cells, c, Len(book[1].cells))
            IN  /\ HasAbsentCell(book[1], c) /\ longest < 4
                    => book[1].widths[c] = 7
                /\ HasAbsentCell(book[1], c)
                    => book[1].widths[c] = Min(Max(4, longest) + 3, 60)
                /\ ~HasAbsentCell(book[1], c)
                    => book[1].widths[c] = Min(longest + 3, 60)

C25_Witness ==
    /\ script = "cpp"
    /\ pc = "fmt_done"
    /\ Len(book[1].cells) = 3
    /\ book[1].cells[1][1].value = S("ID")
    /\ book[1].cells[2][1].value = S("a")
    /\ book[1].cells[3][1].value = None
    /\ book[1].widths[1] = 7

\* C26: when a run of the C++ catalog script has failed in the reload, in
\* format_worksheet or in the final save, the path holds the workbook of the
\* write stage: one sheet per table, without styling, with a row for every
\* record under the header.
C26_DataSurvivesFormatFailure ==
    script = "cpp" /\ pc = "failed" /\ stage \in {"load", "format", "save"} =>
        /\ disk.kind = "xlsx"
        /\ Len(disk.book) = Len(tables)
        /\ \A k \in 1..Len(disk.book) :
              /\ disk.book[k].title = tables[k].name
              /\ ~Styled(disk.book[k])
              /\ DataRows(disk.book[k]) = Len(tables[k].records)

\* C27: every sheet of a file that the data-structures script has saved has
\* its column widths set and nothing else: no filter range, no frozen pane,
\* and cells without fill, font, alignment or border of the script's making.
\* Every sheet of the file the C++ catalog script ends with has a filter
\* range, a frozen pane, a filled header and, when it has data rows, a
\* banded row 2.
C27_DsOnlyWidths ==
    /\ script = "ds" /\ disk.kind = "xlsx" =>
          \A k \in 1..Len(disk.book) :
              LET ws == disk.book[k]
              IN  /\ ws.auto_filter = ""
                  /\ ws.freeze_panes = ""
                  /\ \A r \in 1..Len(ws.cells) : \A c \in 1..NCols(ws.cells) :
                        /\ ws.cells[r][c].fill = UNFILLED_COLOR
                        /\ ws.cells[r][c] = Cell(ws.cells[r][c].value)
                  /\ stage = "none" =>
                        \A c \in 1..NCols(ws.cells) : ws.widths[c] >= 2
    /\ Formatted =>
          \A k \in 1..Len(disk.book) :
              LET ws == disk.book[k]
              IN  /\ ws.auto_filter # ""
                  /\ ws.freeze_panes # ""
                  /\ \A c \in 1..NCols(ws.cells) :
                        ws.cells[1][c].fill # UNFILLED_COLOR
                  /\ Len(ws.cells) >= 2 => RowBanded(ws, 2)

C27_Witness ==
    /\ script = "ds"
    /\ pc = "done"
    /\ caught = 0
    /\ Len(disk.book) = 1
    /\ tables[1].records = <<RecordA, RecordB>>
    /\ disk.book[1].widths = <<6, 7>>
    /\ disk.book[1].auto_filter = ""
    /\ disk.book[1].freeze_panes = ""
    /\ disk.book[1].cells[1][1].fill = UNFILLED_COLOR
    /\ disk.book[1].cells[2][1].fill = UNFILLED_COLOR

\* The structure of a book: its sheets in order, each with its name and its
\* numbers of rows and columns (ws.max_row, ws.max_column).
Structure(wb) ==
    [k \in 1..Len(wb) |-> <<wb[k].title, max_row(wb[k]), max_column(wb[k])>>]

\* C28: through the reload, the formatting of every sheet and the final save
\* of the C++ catalog script, the book in memory and the file keep the
\* structure of the file that the write stage has saved: the same sheets
\* under the same names in the same order, each with the same numbers of rows
\* and columns, and every sheet that had cells keeps exactly its cells' places.
C28_FormattingKeepsStructure ==
    [][script = "cpp" /\ pc \in {"load", "format"} /\ stage' = "none" =>
          /\ Structure(book') = Structure(disk.book)
          /\ Structure(disk'.book) = Structure(disk.book)
          /\ \A k \in 1..Len(disk.book) :
                Len(disk.book[k].cells) > 0 =>
                    /\ Len(book'[k].cells) = Len(disk.book[k].cells)
                    /\ NCols(book'[k].cells) = NCols(disk.book[k].cells)]_vars

C28_Witness ==
    /\ Formatted
    /\ Len(tables) = 2
    /\ tables[1].records = <<RecordA, RecordC>>
    /\ Len(tables[2].records) = 1
    /\ Structure(disk.book)
         = << <<tables[1].name, 3, 3>>, <<tables[2].name, 2, 2>> >>

\* C29: every run comes to an end and stays there: with the summary printed,
\* or with a failure.
C29_Terminates ==
    <>(\/ pc = "done" /\ printed /\ stage = "none"
       \/ pc = "failed" /\ ~printed /\ stage # "none")

C29_Witness ==
    /\ pc = "done"
    /\ printed
    /\ stage = "none"
    /\ Len(tables) = 2
    /\ Len(tables[1].records) = 1
    /\ Len(tables[2].records) = 1
    /\ Len(output) >= 1

====
